---- MODULE Spec2Model ----
(***************************************************************************)
(* Model of docker/proxy/filter.py: the mitmproxy request filter of        *)
(* RemoteAgent.  The module loads a domain whitelist once at import time   *)
(* and then handles one request hook at a time (mitmproxy runs a           *)
(* synchronous hook to completion on its event loop).                      *)
(*                                                                         *)
(* Host and domain names are sequences of one-character strings, so that   *)
(* str.endswith and string concatenation are computed, not assumed.        *)
(* Whitelist entries are JSON strings.                                     *)
(***************************************************************************)
EXTENDS Naturals, Sequences, FiniteSets

VARIABLES pc, whitelistFile, ALLOWED_DOMAINS, flow, logFile, ctxLog

vars == <<pc, whitelistFile, ALLOWED_DOMAINS, flow, logFile, ctxLog>>

(* ---------------------------------------------------------------------- *)
(* Bounds of the model                                                     *)
(* ---------------------------------------------------------------------- *)
MaxHostLen == 2
MaxDomainLen == 1
MaxWhitelistLen == 2
MaxBody == 1
(* log lines appended by this process before the model stops *)
MaxLog == 1

Alphabet == {"a", "."}

Timestamps == {"t0", "t1"}

Paths == {"/", "/x"}

FsOutcomes == {"ok", "makedirs_fails", "open_fails"}

RECURSIVE StringsOfLen(_)
StringsOfLen(n) ==
    IF n = 0 THEN {<< >>}
    ELSE {Append(s, c) : s \in StringsOfLen(n - 1), c \in Alphabet}

StringsUpTo(n) == UNION {StringsOfLen(k) : k \in 0..n}

Hosts == StringsUpTo(MaxHostLen)

Domains == StringsUpTo(MaxDomainLen)

DomainLists == UNION {[1..k -> Domains] : k \in 0..MaxWhitelistLen}

Bodies == UNION {[1..k -> {0}] : k \in 0..MaxBody}

(* flow.request.content is None or a bytes object *)
Contents == {[isNone |-> TRUE, data |-> << >>]}
            \cup {[isNone |-> FALSE, data |-> b] : b \in Bodies}

(* ---------------------------------------------------------------------- *)
(* Module constants                                                        *)
(* ---------------------------------------------------------------------- *)
SAFE_METHODS == {"GET", "HEAD", "OPTIONS"}

(* variant: PATCH is missing from the mutation set *)
MUTATION_METHODS_noPatch == {"POST", "PUT", "DELETE"}

MUTATION_METHODS == {"POST", "PUT", "DELETE", "PATCH"}

(* flow.request.method as the proxy hands it over: the seven methods the     *)
(* script names, and three it does not (the comparison is on the exact      *)
(* string, so "post" is not "POST")                                         *)
Methods == {"GET", "HEAD", "OPTIONS", "POST", "PUT", "DELETE", "PATCH",
            "post", "CONNECT", "TRACE"}

(* ---------------------------------------------------------------------- *)
(* The whitelist file and load_whitelist                                   *)
(* ---------------------------------------------------------------------- *)
(* What open(WHITELIST_PATH) and json.load can meet:                        *)
(*   missing / unreadable  open raises OSError                              *)
(*   invalid_json          json.load raises JSONDecodeError                 *)
(*   not_object            the document is not an object: data.get raises   *)
(*   object                a JSON object; value is what data.get returns    *)
(*     key "absent"        no "allowedDomains" key, the default [] is used  *)
(*     key "null"          the value is null: set(None) raises TypeError    *)
(*     key "string"        the value is one string: set() gives its chars   *)
(*     key "list"          the value is a list of strings                   *)
FileRec(kind, key, items) == [kind |-> kind, key |-> key, items |-> items]

WhitelistFiles ==
    {FileRec(k, "absent", << >>) :
        k \in {"missing", "unreadable", "invalid_json", "not_object"}}
    \cup {FileRec("object", "absent", << >>), FileRec("object", "null", << >>)}
    \cup {FileRec("object", "string", d) : d \in Domains}
    \cup {FileRec("object", "list", l) : l \in DomainLists}

Range(s) == {s[i] : i \in 1..Len(s)}

LogMsg(level, text) == [level |-> level, text |-> text]

LoadRaises(file) ==
    \/ file.kind \in {"missing", "unreadable", "invalid_json", "not_object"}
    \/ file.kind = "object" /\ file.key = "null"

(* variant: a failed load falls back to a built-in domain *)
load_whitelist_failopen(file) ==
    IF LoadRaises(file)
    THEN [value |-> {<<"a">>},
          log |-> <<LogMsg("error", "Failed to load whitelist")>>]
    ELSE [value |-> CASE file.key = "absent" -> {}
                      [] file.key = "string" -> {<<c>> : c \in Range(file.items)}
                      [] file.key = "list" -> Range(file.items),
          log |-> << >>]

load_whitelist(file) ==
    IF LoadRaises(file)
    THEN [value |-> {}, log |-> <<LogMsg("error", "Failed to load whitelist")>>]
    ELSE [value |-> CASE file.key = "absent" -> {}
                      [] file.key = "string" -> {<<c>> : c \in Range(file.items)}
                      [] file.key = "list" -> Range(file.items),
          log |-> << >>]

(* ---------------------------------------------------------------------- *)
(* is_domain_allowed                                                       *)
(* ---------------------------------------------------------------------- *)
EndsWith(s, suffix) ==
    /\ Len(suffix) <= Len(s)
    /\ SubSeq(s, Len(s) - Len(suffix) + 1, Len(s)) = suffix

(* variant: the suffix test forgets the "." *)
is_domain_allowed_nodot(host) ==
    \/ host \in ALLOWED_DOMAINS
    \/ \E allowed \in ALLOWED_DOMAINS : EndsWith(host, allowed)

is_domain_allowed(host) ==
    \/ host \in ALLOWED_DOMAINS
    \/ \E allowed \in ALLOWED_DOMAINS : EndsWith(host, <<".">> \o allowed)

(* ---------------------------------------------------------------------- *)
(* log_blocked_request                                                     *)
(* ---------------------------------------------------------------------- *)
LogEntry(timestamp, method, host, path, body_size) ==
    [timestamp |-> timestamp, method |-> method, host |-> host,
     path |-> path, body_size |-> body_size, action |-> "BLOCKED"]

(* variant: the log file is opened with "w" *)
log_blocked_request_truncate(file, method, host, path, body_size, timestamp, fs) ==
    LET log_entry == LogEntry(timestamp, method, host, path, body_size)
        warn == LogMsg("warn", "BLOCKED")
    IN  IF fs = "ok"
        THEN [logFile |-> <<log_entry>>, log |-> <<warn>>, raised |-> FALSE]
        ELSE [logFile |-> file,
              log |-> <<LogMsg("error", "Failed to write log"), warn>>,
              raised |-> FALSE]

(* variant: no try/except around the write *)
log_blocked_request_raises(file, method, host, path, body_size, timestamp, fs) ==
    LET log_entry == LogEntry(timestamp, method, host, path, body_size)
        warn == LogMsg("warn", "BLOCKED")
    IN  IF fs = "ok"
        THEN [logFile |-> Append(file, log_entry), log |-> <<warn>>, raised |-> FALSE]
        ELSE [logFile |-> file, log |-> << >>, raised |-> TRUE]

(* The result of one call: the log file afterwards, the messages given to   *)
(* ctx.log, and whether the call raised.                                    *)
log_blocked_request(file, method, host, path, body_size, timestamp, fs) ==
    LET log_entry == LogEntry(timestamp, method, host, path, body_size)
        warn == LogMsg("warn", "BLOCKED")
    IN  IF fs = "ok"
        THEN [logFile |-> Append(file, log_entry),
              log |-> <<warn>>,
              raised |-> FALSE]
        ELSE [logFile |-> file,
              log |-> <<LogMsg("error", "Failed to write log"), warn>>,
              raised |-> FALSE]

(* ---------------------------------------------------------------------- *)
(* request                                                                 *)
(* ---------------------------------------------------------------------- *)
(* The log file is opened in append mode: it may hold lines of an earlier    *)
(* run of the proxy.                                                        *)
PriorEntry == LogEntry("earlier", "PUT", <<"a", "a">>, "/x", 1)

PriorLogs == {<< >>, <<PriorEntry>>}

(* number of lines this process has appended *)
Appended(log) == Cardinality({i \in 1..Len(log) : log[i].timestamp \in Timestamps})

NoResponse == [status |-> 0, method |-> "", host |-> << >>]

Forbidden(method, host) == [status |-> 403, method |-> method, host |-> host]

Flow(method, host, path, content, response) ==
    [method |-> method, host |-> host, path |-> path,
     content |-> content, response |-> response]

NoFlow == Flow("", << >>, "", [isNone |-> TRUE, data |-> << >>], NoResponse)

(* variant: the body size is never computed *)
BodySize_zero(content) == 0

(* len(flow.request.content) if flow.request.content else 0 *)
BodySize(content) ==
    IF ~content.isNone /\ Len(content.data) > 0 THEN Len(content.data) ELSE 0

TypeOK ==
    /\ pc \in {"startup", "idle", "handled"}
    /\ whitelistFile \in WhitelistFiles
    /\ ALLOWED_DOMAINS \subseteq Domains
    /\ flow.method \in Methods \cup {""}
    /\ flow.host \in Hosts
    /\ flow.response.status \in {0, 403}
    /\ Appended(logFile) <= MaxLog

Init ==
    /\ pc = "startup"
    /\ whitelistFile \in WhitelistFiles
    /\ ALLOWED_DOMAINS = {}
    /\ flow = NoFlow
    /\ logFile \in PriorLogs
    /\ ctxLog = << >>

(* ALLOWED_DOMAINS = load_whitelist(), run once when the script is loaded *)
Startup ==
    /\ pc = "startup"
    /\ LET r == load_whitelist(whitelistFile)
       IN  /\ ALLOWED_DOMAINS' = r.value
           /\ ctxLog' = r.log
    /\ pc' = "idle"
    /\ UNCHANGED <<whitelistFile, flow, logFile>>

(* lines 90-104: block and log.  The clock and the file system are read     *)
(* here only.  An exception of log_blocked_request would leave the hook     *)
(* before flow.response is assigned.                                        *)
Block(method, host, path, content) ==
    \E timestamp \in Timestamps, fs \in FsOutcomes :
        LET body_size == BodySize(content)
            r == log_blocked_request(logFile, method, host, path,
                                     body_size, timestamp, fs)
        IN  /\ logFile' = r.logFile
            /\ ctxLog' = r.log
            /\ flow' = Flow(method, host, path, content,
                            IF r.raised THEN NoResponse
                            ELSE Forbidden(method, host))

(* variant: safe methods are checked against the whitelist too *)
AllowSafe_checked(method, host, path, content) ==
    IF is_domain_allowed(host)
    THEN /\ ctxLog' = <<LogMsg("info", "ALLOWED")>>
         /\ flow' = Flow(method, host, path, content, NoResponse)
         /\ UNCHANGED logFile
    ELSE Block(method, host, path, content)

(* lines 80-82: a safe method is let through *)
AllowSafe(method, host, path, content) ==
    /\ ctxLog' = <<LogMsg("info", "ALLOWED")>>
    /\ flow' = Flow(method, host, path, content, NoResponse)
    /\ UNCHANGED logFile

(* lines 87-88: a mutating method to a whitelisted host is let through *)
AllowWhitelisted(method, host, path, content) ==
    /\ ctxLog' = <<LogMsg("info", "ALLOWED (whitelisted)")>>
    /\ flow' = Flow(method, host, path, content, NoResponse)
    /\ UNCHANGED logFile

(* variant: the whitelist test is inverted *)
CheckMutation_inverted(method, host, path, content) ==
    IF ~is_domain_allowed(host)
    THEN AllowWhitelisted(method, host, path, content)
    ELSE Block(method, host, path, content)

(* lines 85-104 *)
CheckMutation(method, host, path, content) ==
    IF is_domain_allowed(host)
    THEN AllowWhitelisted(method, host, path, content)
    ELSE Block(method, host, path, content)

(* variant: a method in neither set is refused *)
UnknownMethod_deny(method, host, path, content) ==
    /\ ctxLog' = <<LogMsg("warn", "UNKNOWN METHOD")>>
    /\ flow' = Flow(method, host, path, content, Forbidden(method, host))
    /\ UNCHANGED logFile

(* lines 106-107: a method in neither set is let through with a warning *)
UnknownMethod(method, host, path, content) ==
    /\ ctxLog' = <<LogMsg("warn", "UNKNOWN METHOD")>>
    /\ flow' = Flow(method, host, path, content, NoResponse)
    /\ UNCHANGED logFile

(* variant: a host let through is remembered in the whitelist *)
request_learns(method, host, path, content) ==
    /\ pc \in {"idle", "handled"}
    /\ Appended(logFile) < MaxLog
    /\ pc' = "handled"
    /\ IF method \in SAFE_METHODS
       THEN AllowSafe(method, host, path, content)
       ELSE IF method \in MUTATION_METHODS
       THEN CheckMutation(method, host, path, content)
       ELSE UnknownMethod(method, host, path, content)
    /\ ALLOWED_DOMAINS' = IF flow'.response.status = 0
                          THEN ALLOWED_DOMAINS \cup {host}
                          ELSE ALLOWED_DOMAINS
    /\ UNCHANGED whitelistFile

(* One call of the request hook on a fresh flow (flow.response is None).    *)
request(method, host, path, content) ==
    /\ pc \in {"idle", "handled"}
    /\ Appended(logFile) < MaxLog
    /\ pc' = "handled"
    /\ IF method \in SAFE_METHODS
       THEN AllowSafe(method, host, path, content)
       ELSE IF method \in MUTATION_METHODS
       THEN CheckMutation(method, host, path, content)
       ELSE UnknownMethod(method, host, path, content)
    /\ UNCHANGED <<whitelistFile, ALLOWED_DOMAINS>>

Request ==
    \E method \in Methods, host \in Hosts, path \in Paths, content \in Contents :
        request(method, host, path, content)

Next == Startup \/ Request

Spec == Init /\ [][Next]_vars

(* ---------------------------------------------------------------------- *)
(* Vocabulary of the properties                                            *)
(* ---------------------------------------------------------------------- *)
SafeNames == {"GET", "HEAD", "OPTIONS"}

MutatingNames == {"POST", "PUT", "DELETE", "PATCH"}

(* host is d, or host is some prefix followed by "." and d *)
DottedMatch(host, d) ==
    \/ host = d
    \/ \E prefix \in StringsUpTo(Len(host)) : host = prefix \o <<".">> \o d

(* host ends with d, but d is neither the whole host nor preceded by "." *)
BareSuffix(host, d) ==
    /\ Len(d) > 0
    /\ Len(d) < Len(host)
    /\ \E prefix \in StringsUpTo(Len(host)) :
          /\ host = prefix \o d
          /\ prefix[Len(prefix)] # "."

Said(text) == \E i \in 1..Len(ctxLog) : ctxLog[i].text = text

WriteFailed == Said("Failed to write log")

IsEntryOf(entry, f) ==
    /\ entry.method = f.method
    /\ entry.host = f.host
    /\ entry.path = f.path
    /\ entry.action = "BLOCKED"

(* a step that is one call of the request hook *)
HookStep == pc \in {"idle", "handled"} /\ pc' = "handled"

(* the flow was let through untouched and nothing was appended to the log *)
PassedUntouched == flow'.response = NoResponse /\ logFile' = logFile

(* ---------------------------------------------------------------------- *)
(* C1: a POST, PUT, DELETE or PATCH request to a host for which             *)
(* is_domain_allowed is false gets a 403 response and is logged as blocked: *)
(* the BLOCKED warning is emitted, and unless the file write failed the     *)
(* last line of the log file is the entry of this request.                  *)
(* ---------------------------------------------------------------------- *)
C1_MutatingNotAllowedIsBlocked ==
    (pc = "handled" /\ flow.method \in MutatingNames /\ ~is_domain_allowed(flow.host))
    => /\ flow.response = Forbidden(flow.method, flow.host)
       /\ flow.response.status = 403
       /\ Said("BLOCKED")
       /\ ~WriteFailed =>
            /\ Len(logFile) > 0
            /\ IsEntryOf(logFile[Len(logFile)], flow)

C1_Witness ==
    /\ pc = "handled"
    /\ flow.method = "PATCH"
    /\ ALLOWED_DOMAINS = {<<"a">>}
    /\ flow.host = <<"a", ".">>
    /\ flow.response.status = 403
    /\ Said("BLOCKED")
    /\ Len(logFile) = 2

(* ---------------------------------------------------------------------- *)
(* C2: a GET, HEAD or OPTIONS request is let through whatever the host,     *)
(* path, body and whitelist: the hook sets no response and appends nothing  *)
(* to the blocked-request log.                                              *)
(* ---------------------------------------------------------------------- *)
C2_SafeMethodsPass ==
    [][(HookStep /\ flow'.method \in SafeNames) => PassedUntouched]_vars

C2_Witness ==
    /\ pc = "handled"
    /\ flow.method = "OPTIONS"
    /\ ALLOWED_DOMAINS = {}
    /\ flow.host = <<"a", "a">>
    /\ ~flow.content.isNone /\ Len(flow.content.data) = 1
    /\ flow.response = NoResponse
    /\ logFile = <<PriorEntry>>

(* ---------------------------------------------------------------------- *)
(* C3: a POST, PUT, DELETE or PATCH request to a host for which             *)
(* is_domain_allowed is true is let through: no response is set and nothing *)
(* is appended to the blocked-request log.                                  *)
(* ---------------------------------------------------------------------- *)
C3_MutatingAllowedPass ==
    [][(HookStep /\ flow'.method \in MutatingNames /\ is_domain_allowed(flow'.host))
        => PassedUntouched]_vars

C3_Witness ==
    /\ pc = "handled"
    /\ flow.method = "DELETE"
    /\ ALLOWED_DOMAINS = {<<"a">>}
    /\ flow.host = <<".", "a">>
    /\ flow.response = NoResponse
    /\ Said("ALLOWED (whitelisted)")
    /\ logFile = << >>

(* ---------------------------------------------------------------------- *)
(* C4: once the whitelist is loaded, is_domain_allowed(host) is true        *)
(* exactly when host equals a whitelisted domain d or is some prefix        *)
(* followed by "." and d; a host that only ends with a whitelisted domain   *)
(* without the dot, and matches no domain with it, is not allowed; with an  *)
(* empty whitelist no host is allowed.                                      *)
(* ---------------------------------------------------------------------- *)
C4_ExactOrDottedSuffix ==
    pc # "startup" =>
        /\ \A host \in Hosts :
              is_domain_allowed(host)
                  <=> \E d \in ALLOWED_DOMAINS : DottedMatch(host, d)
        /\ \A host \in Hosts :
              (/\ \E d \in ALLOWED_DOMAINS : BareSuffix(host, d)
               /\ \A d \in ALLOWED_DOMAINS : ~DottedMatch(host, d))
              => ~is_domain_allowed(host)
        /\ ALLOWED_DOMAINS = {} => \A host \in Hosts : ~is_domain_allowed(host)

C4_Witness ==
    /\ pc = "handled"
    /\ ALLOWED_DOMAINS = {<<"a">>}
    /\ flow.host = <<"a", "a">>
    /\ BareSuffix(flow.host, <<"a">>)
    /\ flow.method = "POST"
    /\ flow.response.status = 403
    /\ is_domain_allowed(<<".", "a">>)
    /\ is_domain_allowed(<<"a">>)

C6_WhitelistReadOnly ==
    [][pc # "startup" =>
        /\ ALLOWED_DOMAINS' = ALLOWED_DOMAINS
        /\ \A host \in Hosts : is_domain_allowed(host)' = is_domain_allowed(host)]_vars

C6_Witness ==
    /\ pc = "handled"
    /\ ALLOWED_DOMAINS = {<<"a">>, <<".">>}
    /\ ALLOWED_DOMAINS = load_whitelist(whitelistFile).value
    /\ flow.method = "TRACE"
    /\ flow.host = <<"a", "a">>
    /\ Len(logFile) = 0

(* ---------------------------------------------------------------------- *)
(* C7: the line written for a blocked request carries the method, host and  *)
(* path of that request, the action "BLOCKED", and as body_size the length  *)
(* of the request body, 0 when the body is None or empty.                   *)
(* ---------------------------------------------------------------------- *)
C7_EntryFields ==
    (pc = "handled" /\ flow.response.status = 403 /\ ~WriteFailed)
    => LET entry == logFile[Len(logFile)]
       IN  /\ entry.method = flow.method
           /\ entry.host = flow.host
           /\ entry.path = flow.path
           /\ entry.action = "BLOCKED"
           /\ entry.body_size = IF flow.content.isNone THEN 0
                                ELSE Len(flow.content.data)
           /\ (flow.content.isNone \/ flow.content.data = << >>)
                 => entry.body_size = 0

C7_Witness ==
    /\ pc = "handled"
    /\ flow.response.status = 403
    /\ ~WriteFailed
    /\ flow.method = "PUT"
    /\ flow.path = "/x"
    /\ ~flow.content.isNone /\ Len(flow.content.data) = 1
    /\ logFile[Len(logFile)].body_size = 1
    /\ logFile[Len(logFile)].path = "/x"

(* ---------------------------------------------------------------------- *)
(* C8: when the directory cannot be created or the file cannot be opened,   *)
(* log_blocked_request reports the failure and returns, the log file is     *)
(* left as it was, and the request still gets its 403: a mutating request   *)
(* to a host that is not allowed is answered 403 whether or not the write   *)
(* succeeded.                                                               *)
(* ---------------------------------------------------------------------- *)
C8_BlockDespiteLogFailure ==
    [][(HookStep /\ flow'.method \in MutatingNames
           /\ ~(\E d \in ALLOWED_DOMAINS : DottedMatch(flow'.host, d)))
        => /\ flow'.response.status = 403
           /\ Said("BLOCKED")'
           /\ WriteFailed' => logFile' = logFile]_vars

C8_Witness ==
    /\ pc = "handled"
    /\ WriteFailed
    /\ flow.method = "POST"
    /\ flow.host = <<".", ".">>
    /\ flow.response.status = 403
    /\ logFile = << >>

(* ---------------------------------------------------------------------- *)
(* C9: when the whitelist file is missing, unreadable or not valid JSON,    *)
(* or is an object without "allowedDomains", the load ends with the empty   *)
(* set; then every POST, PUT, DELETE or PATCH request is answered 403 and   *)
(* every GET, HEAD or OPTIONS request is let through.                       *)
(* ---------------------------------------------------------------------- *)
C9_LoadFailsClosed ==
    (/\ pc # "startup"
     /\ \/ whitelistFile.kind \in {"missing", "unreadable", "invalid_json"}
        \/ whitelistFile.kind = "object" /\ whitelistFile.key = "absent")
    => /\ ALLOWED_DOMAINS = {}
       /\ pc = "handled" =>
            /\ flow.method \in MutatingNames => flow.response.status = 403
            /\ flow.method \in SafeNames => flow.response = NoResponse

C9_Witness ==
    /\ pc = "handled"
    /\ whitelistFile.kind = "invalid_json"
    /\ ALLOWED_DOMAINS = {}
    /\ flow.method = "PUT"
    /\ flow.host = <<"a">>
    /\ flow.response.status = 403

(* ---------------------------------------------------------------------- *)
(* C10: a request whose method is in neither set is let through whatever    *)
(* the host and whitelist, with no response and nothing appended to the     *)
(* log; a 403 is set exactly when the method is POST, PUT, DELETE or PATCH  *)
(* and the host matches no whitelisted domain.                              *)
(* ---------------------------------------------------------------------- *)
C10_UnknownMethodsPass ==
    [][HookStep =>
        /\ flow'.method \notin (SafeNames \cup MutatingNames) => PassedUntouched
        /\ flow'.response.status = 403
             <=> /\ flow'.method \in MutatingNames
                 /\ ~(\E d \in ALLOWED_DOMAINS : DottedMatch(flow'.host, d))]_vars

C10_Witness ==
    /\ pc = "handled"
    /\ flow.method = "post"
    /\ ALLOWED_DOMAINS = {}
    /\ flow.host = <<"a", ".">>
    /\ flow.response = NoResponse
    /\ Said("UNKNOWN METHOD")
    /\ logFile = <<PriorEntry>>

====
